---- MODULE Spec2Model ----
(***************************************************************************)
(* Acquisition-and-session engine of src/GUI_V11.py (UroflowmetryApp):     *)
(* the Tk "after" polling callback update_plot, the Start/Stop/Clear       *)
(* button handlers, and the Save form with its submit callback.            *)
(*                                                                         *)
(* Everything runs on the Tk main loop, so each handler is one atomic      *)
(* action.  The three parallel lists x_data / y1_data / y2_data are the    *)
(* sample buffer.  The wall clock (time.time()) is the variable now; it   *)
(* is read in tick periods (100 ms), so it moves on by one at each tick    *)
(* and the button handlers run at the reading of the tick before them.     *)
(***************************************************************************)
EXTENDS Integers, Sequences, FiniteSets, TLC

\* ---------------------------------------------------------------- bounds
MaxLineLen == 4      \* longest line the device sends (characters)
MaxTime    == 2      \* the clock counts tick periods, 0..MaxTime

\* ------------------------------------------------- serial line decoding
\* Characters the modelled device can put on the wire: a digit, the field
\* separator, white space and a letter.
Chars == {"1", ",", " ", "a"}

Lines == UNION {[1..n -> Chars] : n \in 0..MaxLineLen}

IsSpace(c) == c = " "

IsDigit(c) == c = "1"

DigitVal(c) == IF c = "1" THEN 1 ELSE 0

RECURSIVE lstrip(_)
\* str.lstrip(): drop leading white space
lstrip(s) ==
    IF s = <<>> THEN <<>>
    ELSE IF IsSpace(Head(s)) THEN lstrip(Tail(s))
    ELSE s

RECURSIVE rstrip(_)
\* str.rstrip(): drop trailing white space
rstrip(s) ==
    IF s = <<>> THEN <<>>
    ELSE IF IsSpace(s[Len(s)]) THEN rstrip(SubSeq(s, 1, Len(s) - 1))
    ELSE s

\* str.strip()
strip(s) == rstrip(lstrip(s))

RECURSIVE split(_, _)
\* str.split(','): the fields between separators; "" splits to one empty
\* field.  cur is the field being collected.
split(s, cur) ==
    IF s = <<>> THEN << cur >>
    ELSE IF Head(s) = "," THEN << cur >> \o split(Tail(s), <<>>)
    ELSE split(Tail(s), Append(cur, Head(s)))

RECURSIVE DecimalValue(_, _)
\* value of a digit string, most significant digit first
DecimalValue(s, acc) ==
    IF s = <<>> THEN acc
    ELSE DecimalValue(Tail(s), 10 * acc + DigitVal(Head(s)))

\* float(field): surrounding white space is ignored; what is left must be a
\* non-empty digit string, anything else raises ValueError.
ParseFloat(field) ==
    LET t == strip(field)
    IN  IF t # <<>> /\ \A i \in 1..Len(t) : IsDigit(t[i])
        THEN [ok |-> TRUE, val |-> DecimalValue(t, 0)]
        ELSE [ok |-> FALSE, val |-> 0]

FieldsAtLeastTwo(data) == Len(data) >= 2

\* The number of fields that update_plot accepts (len(data) == 2).
FieldsWanted(data) == Len(data) = 2

\* readline().decode('utf-8').strip().split(',') followed by
\* "if len(data) == 2: y1, y2 = map(float, data)".
\*   n    number of fields
\*   ok   two numbers were obtained
\*   err  float() raised ValueError
Decode(line) ==
    LET data == split(strip(line), <<>>)
    IN  IF ~FieldsWanted(data)
        THEN [n |-> Len(data), ok |-> FALSE, err |-> FALSE, y1 |-> 0, y2 |-> 0]
        ELSE LET a == ParseFloat(data[1])
                 b == ParseFloat(data[2])
             IN  IF a.ok /\ b.ok
                 THEN [n |-> Len(data), ok |-> TRUE, err |-> FALSE,
                       y1 |-> a.val, y2 |-> b.val]
                 ELSE [n |-> Len(data), ok |-> FALSE, err |-> TRUE,
                       y1 |-> 0, y2 |-> 0]

\* What a tick can get out of one line of the device.
Decoded == {Decode(l) : l \in Lines}

\* The port is opened with timeout=1 (line 62) and readline() is called as
\* soon as in_waiting > 0, that is with at least one byte buffered: when
\* the newline does not arrive within the timeout, readline() returns the
\* bytes that did, a non-empty proper prefix of the line being sent.
Fragments == UNION {{SubSeq(l, 1, k) : k \in 1..(Len(l) - 1)} : l \in Lines}

\* What a tick can get out of such a fragment.
DecodedFragments == {Decode(f) : f \in Fragments}

NoLine == [n |-> 0, ok |-> FALSE, err |-> FALSE, y1 |-> 0, y2 |-> 0]

\* What one poll of the port can come to (lines 233-255):
\*   "nodata"              in_waiting is 0
\*   "SerialException"     in_waiting or readline raised
\*   "UnicodeDecodeError"  the bytes read are not UTF-8
\*   "line"                readline() returned and its text decoded to d;
\*                         complete says whether it returned at a newline
\*                         or at the timeout; draw says whether
\*                         canvas.draw(), reached only after an append,
\*                         raised
Polls ==
    {[kind |-> k, d |-> NoLine, complete |-> TRUE, draw |-> FALSE] :
        k \in {"nodata", "SerialException", "UnicodeDecodeError"}}
    \cup {[kind |-> "line", d |-> d, complete |-> TRUE, draw |-> FALSE] :
            d \in Decoded}
    \cup {[kind |-> "line", d |-> d, complete |-> TRUE, draw |-> TRUE] :
            d \in {e \in Decoded : e.ok}}
    \cup {[kind |-> "line", d |-> d, complete |-> FALSE, draw |-> FALSE] :
            d \in DecodedFragments}
    \cup {[kind |-> "line", d |-> d, complete |-> FALSE, draw |-> TRUE] :
            d \in {e \in DecodedFragments : e.ok}}

\* ----------------------------------------------------------------- state
VARIABLES
    serial_port,    \* "absent" (None) | "open" | "closed"
    is_running,     \* self.is_running
    start_time,     \* self.start_time: [set, at]; the attribute exists once Start ran
    x_data,         \* elapsed seconds of each sample
    y1_data,        \* flow rate of each sample
    y2_data,        \* volume of each sample
    y1_label,       \* number shown by the flow-rate label
    y2_label,       \* number shown by the volume label
    after_pending,  \* update_plot callbacks scheduled with root.after
    entry_window,   \* the Save form: [open, at_len], at_len the buffer length at Save
    now,            \* time.time(), in tick periods
    gen_data,       \* history: start_time of the session that appended each sample
    event           \* history: the last handler that ran and what it did

vars == << serial_port, is_running, start_time, x_data, y1_data, y2_data,
           y1_label, y2_label, after_pending, entry_window, now,
           gen_data, event >>

buffer == << x_data, y1_data, y2_data >>

\* canvas.draw() in a button handler succeeds or raises.
DrawFaults == {"none", "draw"}

\* connect_serial either opens COM3 or leaves serial_port = None.
ConnectOutcomes == {"open", "absent"}

NoForm == [open |-> FALSE, at_len |-> 0]

Init ==
    /\ serial_port \in ConnectOutcomes
    /\ is_running = FALSE
    /\ start_time = [set |-> FALSE, at |-> 0]
    /\ x_data = <<>>
    /\ y1_data = <<>>
    /\ y2_data = <<>>
    /\ y1_label = 0
    /\ y2_label = 0
    /\ after_pending = 1
    /\ entry_window = NoForm
    /\ now = 0
    /\ gen_data = <<>>
    /\ event = [op |-> "init", after_clear |-> FALSE, res |-> "ok", n |-> 0,
                y1 |-> 0, y2 |-> 0, len |-> 0, frag |-> FALSE]

\* The link test of update_plot: self.serial_port and self.serial_port.is_open
LinkOpen == serial_port = "open"

\* Session status as the spec names it, read off the fields.
Status ==
    IF is_running THEN "Running"
    ELSE IF start_time.set THEN "Stopped"
    ELSE "Idle"

\* The record kept of a handler's run: op the handler, res the path it took,
\* after_clear whether the handler before it was Clear; for a tick that
\* decoded a line, n its field count and y1, y2 the numbers read; for a
\* Start, len the buffer length it found; for a submit, n the buffer length
\* at Save and len the length it plotted.  frag is set by a tick whose
\* readline() returned at the timeout.
Ev(op, res, n, y1, y2, len) ==
    [op |-> op, after_clear |-> (event.op = "clear"), res |-> res, n |-> n,
     y1 |-> y1, y2 |-> y2, len |-> len, frag |-> FALSE]

\* ------------------------------------------------------ acquisition tick
TickGuardLinkOnly == LinkOpen

\* Line 232: the tick polls only while running with an open link.
TickGuard == is_running /\ LinkOpen

\* The clock reading of the tick now running.
TickTime == IF now < MaxTime THEN now + 1 ELSE now

ElapsedSinceEpoch(t) == t

ElapsedReversed(t) == start_time.at - t

\* Line 238: current_time = time.time() - self.start_time
Elapsed(t) == t - start_time.at

RearmUnlessRaised(raised) == IF raised THEN 0 ELSE 1

\* Line 260: root.after(100, self.update_plot) follows the try/except, so
\* one callback is scheduled whether or not the tick raised inside it.
Rearm(raised) == 1

\* What one tick does, by the path it takes through lines 232-258.
TickRes(poll) ==
    IF ~TickGuard THEN "idle"
    ELSE IF poll.kind # "line" THEN poll.kind
    ELSE IF poll.d.err THEN "ValueError"
    ELSE IF ~poll.d.ok THEN "skip"
    ELSE IF poll.draw THEN "drawfault"
    ELSE "appended"

TickAppends(res) == res \in {"appended", "drawfault"}

TickRaised(res) ==
    res \in {"SerialException", "UnicodeDecodeError", "ValueError", "drawfault"}

TickDecoded(res) == res \in {"skip", "ValueError", "appended", "drawfault"}

\* update_plot, given what its poll of the port comes to.  Once the clock
\* has reached MaxTime the model appends no more.
update_plot(poll) ==
    LET res == TickRes(poll)
        d == poll.d
    IN  /\ after_pending > 0
        /\ TickAppends(res) => now < MaxTime
        /\ now' = TickTime
        /\ IF TickAppends(res)
           THEN /\ x_data' = Append(x_data, Elapsed(TickTime))
                /\ y1_data' = Append(y1_data, d.y1)
                /\ y2_data' = Append(y2_data, d.y2)
                /\ gen_data' = Append(gen_data, start_time.at)
                /\ y1_label' = d.y1
                /\ y2_label' = d.y2
           ELSE UNCHANGED << x_data, y1_data, y2_data, gen_data,
                             y1_label, y2_label >>
        /\ after_pending' = (after_pending - 1) + Rearm(TickRaised(res))
        /\ event' = IF TickDecoded(res)
                    THEN [Ev("tick", res, d.n, d.y1, d.y2, 0)
                            EXCEPT !.frag = ~poll.complete]
                    ELSE Ev("tick", res, 0, 0, 0, 0)
        /\ UNCHANGED << serial_port, is_running, start_time, entry_window >>

Tick == \E poll \in Polls : update_plot(poll)

\* ------------------------------------------------------- button handlers
initialize_plot_data_keeps_series ==
    /\ is_running' = TRUE
    /\ start_time' = [set |-> TRUE, at |-> now]
    /\ UNCHANGED << x_data, y1_data, y2_data, gen_data >>

\* initialize_plot_data up to the redraw: running flag, session clock, and
\* the three series emptied.
initialize_plot_data ==
    /\ is_running' = TRUE
    /\ start_time' = [set |-> TRUE, at |-> now]
    /\ x_data' = <<>>
    /\ y1_data' = <<>>
    /\ y2_data' = <<>>
    /\ gen_data' = <<>>

\* start_serial_communication, reached unless canvas.draw() raised:
\* nothing is written when serial_port is None; write() on a closed port
\* raises after the session fields were already set.
StartRes(fault) ==
    IF fault = "draw" THEN "drawfault"
    ELSE IF serial_port = "absent" THEN "nolink"
    ELSE IF serial_port = "closed" THEN "PortNotOpen"
    ELSE "sent"

start_action(fault) ==
    /\ initialize_plot_data
    /\ event' = Ev("start", StartRes(fault), 0, 0, 0, Len(x_data))
    /\ UNCHANGED << serial_port, y1_label, y2_label, after_pending,
                    entry_window, now >>

Start == \E fault \in DrawFaults : start_action(fault)

stop_action ==
    /\ is_running' = FALSE
    /\ event' = Ev("stop", "ok", 0, 0, 0, 0)
    /\ UNCHANGED << serial_port, start_time, x_data, y1_data, y2_data,
                    y1_label, y2_label, after_pending, entry_window, now,
                    gen_data >>

clear_action_forgets_volume(fault) ==
    /\ x_data' = <<>>
    /\ y1_data' = <<>>
    /\ gen_data' = <<>>
    /\ y1_label' = 0
    /\ y2_label' = 0
    /\ event' = Ev("clear", IF fault = "draw" THEN "drawfault" ELSE "ok",
                   0, 0, 0, 0)
    /\ UNCHANGED << serial_port, is_running, start_time, after_pending,
                    entry_window, now, y2_data >>

clear_action_keeps_labels(fault) ==
    /\ x_data' = <<>>
    /\ y1_data' = <<>>
    /\ y2_data' = <<>>
    /\ gen_data' = <<>>
    /\ event' = Ev("clear", IF fault = "draw" THEN "drawfault" ELSE "ok",
                   0, 0, 0, 0)
    /\ UNCHANGED << serial_port, is_running, start_time, after_pending,
                    entry_window, now, y1_label, y2_label >>

clear_action_stops(fault) ==
    /\ x_data' = <<>>
    /\ y1_data' = <<>>
    /\ y2_data' = <<>>
    /\ gen_data' = <<>>
    /\ y1_label' = 0
    /\ y2_label' = 0
    /\ is_running' = FALSE
    /\ event' = Ev("clear", IF fault = "draw" THEN "drawfault" ELSE "ok",
                   0, 0, 0, 0)
    /\ UNCHANGED << serial_port, start_time, after_pending,
                    entry_window, now >>

\* clear_action: the series emptied and both labels back to 0; the final
\* canvas.draw() may raise, after everything was reset.
clear_action(fault) ==
    /\ x_data' = <<>>
    /\ y1_data' = <<>>
    /\ y2_data' = <<>>
    /\ gen_data' = <<>>
    /\ y1_label' = 0
    /\ y2_label' = 0
    /\ event' = Ev("clear", IF fault = "draw" THEN "drawfault" ELSE "ok",
                   0, 0, 0, 0)
    /\ UNCHANGED << serial_port, is_running, start_time, after_pending,
                    entry_window, now >>

Clear == \E fault \in DrawFaults : clear_action(fault)

\* ------------------------------------------------------------------ save
\* save_data opens the form and returns; nothing of the buffer is read or
\* kept.  at_len notes the buffer length when Save was pressed.  The model
\* follows one form at a time.
save_data ==
    /\ ~entry_window.open
    /\ entry_window' = [open |-> TRUE, at_len |-> Len(x_data)]
    /\ event' = Ev("save", "form", 0, 0, 0, 0)
    /\ UNCHANGED << serial_port, is_running, start_time, x_data, y1_data,
                    y2_data, y1_label, y2_label, after_pending, now,
                    gen_data >>

\* submit: missing fields and database errors are reported and leave the
\* form open; otherwise the row is inserted, generate_pdf runs (its own
\* errors are only logged) and the form is closed.
SubmitRes(complete, dbfault, pdffault) ==
    IF ~complete THEN "incomplete"
    ELSE IF dbfault THEN "dberror"
    ELSE IF pdffault THEN "pdferror"
    ELSE "saved"

\* save_plots draws self.x_data, self.y1_data and self.y2_data as they are
\* when submit runs.
save_plots == << x_data, y1_data, y2_data >>

submit(complete, dbfault, pdffault) ==
    LET res == SubmitRes(complete, dbfault, pdffault)
    IN  /\ entry_window.open
        /\ entry_window' = IF res \in {"saved", "pdferror"} THEN NoForm
                           ELSE entry_window
        /\ event' = Ev("submit", res, entry_window.at_len, 0, 0,
                       IF res = "saved" THEN Len(save_plots[1]) ELSE 0)
        /\ UNCHANGED << serial_port, is_running, start_time, x_data, y1_data,
                        y2_data, y1_label, y2_label, after_pending, now,
                        gen_data >>

Submit == \E complete \in BOOLEAN, dbfault \in BOOLEAN, pdffault \in BOOLEAN :
             submit(complete, dbfault, pdffault)

Next ==
    \/ Tick
    \/ Start
    \/ stop_action
    \/ Clear
    \/ save_data
    \/ Submit

Spec == Init /\ [][Next]_vars

\* The Tk main loop runs every scheduled callback.
FairSpec == Spec /\ WF_vars(Tick)

\* ================================================================ claims
EmptyBuffer == << <<>>, <<>>, <<>> >>

C2_BufferFrozenAfterStop ==
    [][(event'.op = "stop" \/
        (~is_running /\ event'.op \notin {"start", "clear"})) =>
          buffer' = buffer]_vars

\* A tick has run on a stopped session that holds samples.
C2_Witness ==
    /\ Status = "Stopped"
    /\ event.op = "tick"
    /\ Len(x_data) > 0

\* C3: a callback of update_plot is scheduled in every state, whatever the
\* last tick met, and ticks run infinitely often.
C3_TickAlwaysRearmed ==
    /\ [](after_pending >= 1)
    /\ []<>(event.op = "tick")

\* A tick has raised inside its try block and the next one is scheduled.
C3_Witness ==
    /\ event.op = "tick"
    /\ TickRaised(event.res)
    /\ after_pending >= 1

\* The cases of a malformed line: a field count other than two (the empty
\* string has one field) or a field float() rejects.
MalformedRead(e) ==
    /\ e.op = "tick"
    /\ TickDecoded(e.res)
    /\ (e.n # 2 \/ e.res = "ValueError")

\* C4: a tick that reads a malformed line leaves the three series as they
\* were, leaves the session running and schedules the next tick.
C4_MalformedLineDiscarded ==
    [][MalformedRead(event') =>
          (buffer' = buffer /\ is_running' /\ after_pending' >= 1)]_vars

\* A malformed line was read on a running session that holds samples.
C4_Witness ==
    /\ MalformedRead(event)
    /\ is_running
    /\ Len(x_data) > 0

\* C5: right after Start the three series are empty, and every sample in
\* the buffer was appended in the session of the most recent Start.  (A
\* session that appended a sample was started at a clock reading before
\* that of any later Start, so start_time tells the sessions apart.)
C5_StartEmptiesBuffer ==
    /\ event.op = "start" => buffer = EmptyBuffer
    /\ Len(gen_data) = Len(x_data)
    /\ \A i \in 1..Len(gen_data) : gen_data[i] = start_time.at

\* Start has run on a buffer that held samples.
C5_Witness ==
    /\ event.op = "start"
    /\ event.len > 0
    /\ x_data = <<>>

\* C6: an export that reached persistence came from a Save pressed on a
\* buffer that held at least one sample.
C6_EmptyExportRefused ==
    (event.op = "submit" /\ event.res \in {"saved", "pdferror"}) =>
        event.n > 0

\* C7: the series a submit plots has as many samples as the buffer had when
\* Save was pressed.
C7_ExportIsSaveTimeSnapshot ==
    (event.op = "submit" /\ event.res = "saved") => event.len = event.n

\* What Clear may not change apart from the series and the labels.
SessionFields == << serial_port, is_running, start_time, after_pending,
                    entry_window, now >>

\* C8: after Clear the three series are empty and both labels show 0, and a
\* Clear that follows a Clear changes none of the program's fields.
C8_ClearIdempotent ==
    /\ [](event.op = "clear" =>
            (buffer = EmptyBuffer /\ y1_label = 0 /\ y2_label = 0))
    /\ [][(event.op = "clear" /\ event'.op = "clear") =>
            (buffer' = buffer /\ y1_label' = y1_label /\ y2_label' = y2_label
             /\ SessionFields' = SessionFields)]_vars

\* Clear has run twice in a row on a running session.
C8_Witness ==
    /\ event.op = "clear"
    /\ event.after_clear
    /\ is_running

\* C9: Clear leaves the running flag and start_time as they were, and a
\* valid line read by the tick after a Clear becomes the only sample of the
\* buffer, the session still running.
C9_ClearKeepsRunning ==
    /\ [][event'.op = "clear" =>
            (is_running' = is_running /\ start_time' = start_time)]_vars
    /\ []((event.op = "tick" /\ event.after_clear /\ TickAppends(event.res)) =>
            (is_running /\ Len(x_data) = 1 /\ Len(y1_data) = 1
             /\ Len(y2_data) = 1))

\* The tick after a Clear appended a sample.
C9_Witness ==
    /\ event.op = "tick"
    /\ event.after_clear
    /\ event.res = "appended"

\* A tick read a line of two fields that float() both accepted.
ValidRead(e) ==
    /\ e.op = "tick"
    /\ TickDecoded(e.res)
    /\ e.n = 2
    /\ e.res # "ValueError"

\* C10: a tick that reads a valid line appends exactly one sample at the
\* end of the buffer: the clock reading of the tick less the reading at the
\* most recent Start, the first field as flow and the second as volume.
C10_ValidLineAppended ==
    [][ValidRead(event') =>
          /\ x_data' = Append(x_data, now' - start_time.at)
          /\ y1_data' = Append(y1_data, event'.y1)
          /\ y2_data' = Append(y2_data, event'.y2)]_vars

\* After Start and a later Clear, a tick appended a line whose two fields
\* differ, at an elapsed time that reaches back before the Clear.
C10_Witness ==
    /\ event.op = "tick"
    /\ event.after_clear
    /\ TickAppends(event.res)
    /\ event.y1 # event.y2
    /\ x_data = << now - start_time.at >>
    /\ x_data[1] > 1

\* C11: in every state the elapsed times in x_data are non-negative and
\* non-decreasing in buffer order.  (The clock of the model never goes back,
\* and a tick appends at the end, so buffer order is arrival order.)
C11_ElapsedOrdered ==
    /\ \A i \in 1..Len(x_data) : x_data[i] >= 0
    /\ \A i \in 1..Len(x_data) : \A j \in i..Len(x_data) :
            x_data[i] <= x_data[j]

\* Two samples of one session are in the buffer, the later one last.
C11_Witness ==
    /\ Len(x_data) = 2
    /\ x_data[1] < x_data[2]
    /\ event.op = "tick"

\* C13: in every state the three series have the same length.
C13_SeriesSameLength ==
    /\ Len(x_data) = Len(y1_data)
    /\ Len(y1_data) = Len(y2_data)

\* A tick whose redraw raised has left a sample in each series, and a tick
\* whose decoding raised has run on a buffer that holds samples.
C13_Witness ==
    /\ event.op = "tick"
    /\ event.res \in {"drawfault", "ValueError"}
    /\ Len(x_data) >= 1
    /\ Len(y2_data) >= 1

\* C12: a sample is appended only from a line that readline() returned
\* complete, at its newline.
C12_OnlyCompleteLinesAppended ==
    (event.op = "tick" /\ TickAppends(event.res)) => ~event.frag

====
